---- MODULE Spec2Model ----
(***************************************************************************)
(* A model of the array-based Huffman codec of src/main.cpp: compress      *)
(* (frequency table, build_huffman_array, header, generate_codes, payload) *)
(* and decompress (read_header, generate_codes, the prefix-matching loop). *)
(*                                                                         *)
(* Conventions.  A std::vector or std::string is a sequence; an iterator   *)
(* is its 0-based offset from begin(), so position p denotes element       *)
(* s[p + 1] and end() is Len(s).  A reverse_iterator is its 0-based offset *)
(* from rbegin(): reverse position r of a vector of n elements denotes     *)
(* element s[n - r].  A bit character '0'/'1' is the number 0/1.  A char   *)
(* is a signed 8-bit integer.  A std::pair is a record [first, second].    *)
(***************************************************************************)
EXTENDS Integers, Sequences, FiniteSets, TLC

VARIABLES
    pc,           \* position of the program
    input,        \* compress: the message (const std::string& input)
    frequencies,  \* compress: the weight-sorted (count, symbol) table
    nodes,        \* huffman_encoder::nodes
    lnodes,       \* huffman_encoder::operator(): lnodes
    f0, f1,       \* cursors of build_huffman_array, then of header
    merged,       \* history: the (x, y) consumed for every appended node
    result,       \* huffman_encoder::operator(): result
    hlen,         \* history: length of what header() returned
    st,           \* huffman_encoder::operator(): st (symbol -> code)
    gc,           \* the locals of the running generate_codes call
    emitted,      \* history: the pairs generate_codes handed to f, in order
    bits,         \* decompress: the bitstream (const std::string& input)
    dnodes,       \* huffman_decoder::nodes
    rh,           \* the locals of read_header: size, i, lnodes, inodes, first
    prefixes,     \* huffman_decoder::operator(): prefixes
    current,      \* huffman_decoder::operator(): current
    bits_read,    \* huffman_decoder::operator(): bits_read
    output,       \* decompress: result
    ub            \* the first undefined behaviour executed, "none" if none

vars == <<pc, input, frequencies, nodes, lnodes, f0, f1, merged, result, hlen,
          st, gc, emitted, bits, dnodes, rh, prefixes, current, bits_read,
          output, ub>>

-----------------------------------------------------------------------------
(* Bounds of the model *)

\* longest message given to compress
MaxLen == 5
\* longest message whose bitstream is also decompressed cut short
MaxCutLen == 3
\* most bits cut from the end of the header or of the payload
MaxDrop == 2
\* how far past the end of the bitstream the decoder's cursor is followed
MaxOver == 1

\* the messages' alphabet: chars, one of them negative
Symbols == {-1, 48, 97, 98}

-----------------------------------------------------------------------------
(* Program constants *)

\* std::bitset<16> of the node count
SizeBits == 16
\* std::bitset<8> / sizeof(T) * 8 of a symbol
CharBits == 8

-----------------------------------------------------------------------------
(* Sequences *)

At(s, p) == s[p + 1]

RECURSIVE Pow2(_)
Pow2(n) == IF n = 0 THEN 1 ELSE 2 * Pow2(n - 1)

RECURSIVE Concat(_)
Concat(ss) == IF ss = <<>> THEN <<>> ELSE Head(ss) \o Concat(Tail(ss))

\* std::string::substr(pos, n) for pos <= size()
substr(s, pos, n) ==
    SubSeq(s, pos + 1, IF pos + n < Len(s) THEN pos + n ELSE Len(s))

-----------------------------------------------------------------------------
(* binary_converter and std::bitset *)

\* std::bitset<w>(v).to_string(): the low w bits of v, most significant first
RECURSIVE to_string(_, _)
to_string(w, v) ==
    IF w = 0 THEN <<>> ELSE Append(to_string(w - 1, v \div 2), v % 2)

\* std::stoi(x, nullptr, 2) and std::bitset<16>(string).to_ulong()
RECURSIVE stoi(_)
stoi(x) ==
    IF x = <<>> THEN 0 ELSE 2 * stoi(SubSeq(x, 1, Len(x) - 1)) + x[Len(x)]

\* binary_converter::operator()(pair): the char is converted to an unsigned
\* integer modulo 2^64, of which the bitset keeps the low 8 bits
converter_encode(x) == to_string(CharBits, x.second % Pow2(CharBits))

\* binary_converter::operator()(string): static_cast<char> of the parsed int
converter_decode(x) ==
    LET v == stoi(x) % Pow2(CharBits)
    IN  IF v >= Pow2(CharBits - 1) THEN v - Pow2(CharBits) ELSE v

-----------------------------------------------------------------------------
(* The frequency table *)

\* std::sort(x.begin(), x.end()) of a string
RECURSIVE Insert(_, _)
Insert(c, s) ==
    IF s = <<>> THEN <<c>>
    ELSE IF c <= Head(s) THEN <<c>> \o s
    ELSE <<Head(s)>> \o Insert(c, Tail(s))

RECURSIVE sort_string(_)
sort_string(s) ==
    IF s = <<>> THEN <<>> ELSE Insert(Head(s), sort_string(Tail(s)))

\* adjacent_count(first, last) on x: <<n, position after the run>>
RECURSIVE adjacent_run(_, _, _)
adjacent_run(x, first, n) ==
    IF first + 1 # Len(x) /\ At(x, first) = At(x, first + 1)
    THEN adjacent_run(x, first + 1, n + 1)
    ELSE <<n + 1, first + 1>>

adjacent_count(x, first) ==
    IF first = Len(x) THEN <<0, first>> ELSE adjacent_run(x, first, 0)

RECURSIVE unique_copy_with_count(_, _, _)
unique_copy_with_count(x, first, res) ==
    LET count == adjacent_count(x, first)
    IN  IF count[1] = 0 THEN res
        ELSE unique_copy_with_count(x, count[2],
                 Append(res, [first |-> count[1], second |-> At(x, first)]))

\* compare_first<T, char, std::less<T>>
cmp(x, y) == x.first < y.first

\* std::not2(cmp), the comparison the encoder hands to generate_codes
encoder_cmp(x, y) == ~cmp(x, y)

\* the decoder's lambda without its negation
decoder_cmp_less(x, y) == x.first < y.first

\* the decoder's lambda, over (index, symbol) pairs: !(x.first < y.first)
decoder_cmp(x, y) == ~(x.first < y.first)

\* is_sorted(s.begin(), s.end(), cmp)
is_sorted(s) == \A i \in 1..(Len(s) - 1) : ~cmp(s[i + 1], s[i])

\* what std::sort(first, last, cmp) may leave: any arrangement of s that is
\* sorted by cmp (the order of equivalent elements is unspecified)
sorted_by_cmp(s) ==
    {t \in {[i \in 1..Len(s) |-> s[p[i]]] : p \in Permutations(1..Len(s))} :
        is_sorted(t)}

-----------------------------------------------------------------------------
(* next_node *)

\* next_node with the comparison inverted: it takes from the first range
\* when cmp(*f1, *f0) holds
next_node_inverted(a0, l0, a1, l1, c) ==
    IF a1 = l1 THEN [x |-> a0, f0 |-> a0 + 1, f1 |-> a1, bad |-> (a0 = l0)]
    ELSE IF a0 = l0 THEN [x |-> a1, f0 |-> a0, f1 |-> a1 + 1, bad |-> FALSE]
    ELSE IF c THEN [x |-> a0, f0 |-> a0 + 1, f1 |-> a1, bad |-> FALSE]
    ELSE [x |-> a1, f0 |-> a0, f1 |-> a1 + 1, bad |-> FALSE]

\* next_node(f0, l0, f1, l1, cmp); c is cmp(*f1, *f0).  The result holds the
\* returned iterator x, the advanced cursors, and whether the call found both
\* ranges exhausted (it then returns l0, which no caller may dereference).
next_node(a0, l0, a1, l1, c) ==
    IF a1 = l1 THEN [x |-> a0, f0 |-> a0 + 1, f1 |-> a1, bad |-> (a0 = l0)]
    ELSE IF a0 = l0 THEN [x |-> a1, f0 |-> a0, f1 |-> a1 + 1, bad |-> FALSE]
    ELSE IF c THEN [x |-> a1, f0 |-> a0, f1 |-> a1 + 1, bad |-> FALSE]
    ELSE [x |-> a0, f0 |-> a0 + 1, f1 |-> a1, bad |-> FALSE]

\* cmp(*f1, *f0) over s, when both cursors can be dereferenced
cmp_at(s, a0, a1) ==
    a0 < Len(s) /\ a1 < Len(s) /\ cmp(At(s, a1), At(s, a0))

-----------------------------------------------------------------------------
(* compress *)

Init ==
    /\ pc = "compress"
    /\ input \in UNION {[1..n -> Symbols] : n \in 0..MaxLen}
    /\ frequencies = <<>>
    /\ nodes = <<>>
    /\ lnodes = 0
    /\ f0 = 0
    /\ f1 = 0
    /\ merged = <<>>
    /\ result = <<>>
    /\ hlen = 0
    /\ st = <<>>
    /\ gc = [f0 |-> 0, l0 |-> 0, f1 |-> 0, l1 |-> 0, n |-> 0,
             prefixes |-> <<>>, current |-> 0, exhausted |-> FALSE]
    /\ emitted = <<>>
    /\ bits = <<>>
    /\ dnodes = <<>>
    /\ rh = [size |-> 0, i |-> 0, lnodes |-> 0, inodes |-> 0, first |-> 0]
    /\ prefixes = <<>>
    /\ current = 0
    /\ bits_read = <<>>
    /\ output = <<>>
    /\ ub = "none"

\* compress, up to the construction of the encoder: the frequency table of
\* the sorted copy, sorted by weight; then operator() reads lnodes
Frequencies ==
    /\ pc = "compress"
    /\ \E t \in sorted_by_cmp(unique_copy_with_count(sort_string(input), 0, <<>>)) :
          /\ frequencies' = t
          /\ nodes' = t
          /\ lnodes' = Len(t)
    /\ pc' = "build"
    /\ UNCHANGED <<input, f0, f1, merged, result, hlen, st, gc, emitted, bits,
                   dnodes, rh, prefixes, current, bits_read, output, ub>>

-----------------------------------------------------------------------------
(* huffman_encoder::build_huffman_array *)

\* merge_first_op<T, std::plus<T>>: the weights added, the symbol U{}
op(x, y) == [first |-> x.first + y.first, second |-> 0]

\* l0 of build_huffman_array: nodes.end() before the first push_back
build_l0 == lnodes

\* l1 of build_huffman_array: nodes.begin() + n, n = size * 2 - 1
build_l1 == lnodes * 2 - 1

\* size = 0: n = size * 2 - 1 wraps to the largest size_t and
\* nodes.reserve(n) throws std::length_error
BuildEmpty ==
    /\ pc = "build"
    /\ Len(nodes) = 0
    /\ pc' = "length_error"
    /\ UNCHANGED <<input, frequencies, nodes, lnodes, f0, f1, merged, result,
                   hlen, st, gc, emitted, bits, dnodes, rh, prefixes, current,
                   bits_read, output, ub>>

\* size = 1: nodes[1] is read past the end of the vector and the push_back
\* leaves every cursor dangling; nodes.end() never meets l1 again.  The call
\* crashes or runs on without end.
BuildTooFew ==
    /\ pc = "build"
    /\ Len(nodes) = 1
    /\ ub' = "nodes[1]"
    /\ pc' \in {"crashed", "diverged"}
    /\ UNCHANGED <<input, frequencies, nodes, lnodes, f0, f1, merged, result,
                   hlen, st, gc, emitted, bits, dnodes, rh, prefixes, current,
                   bits_read, output>>

\* lines 232-241: the first internal node, of nodes[0] and nodes[1]
BuildStart ==
    /\ pc = "build"
    /\ Len(nodes) >= 2
    /\ f0' = 2
    /\ nodes' = Append(nodes, op(At(nodes, 0), At(nodes, 1)))
    /\ f1' = build_l0
    /\ merged' = <<[x |-> 0, y |-> 1]>>
    /\ pc' = "build_loop"
    /\ UNCHANGED <<input, frequencies, lnodes, result, hlen, st, gc, emitted,
                   bits, dnodes, rh, prefixes, current, bits_read, output, ub>>

\* lines 243-247: one iteration of the loop
BuildStep ==
    /\ pc = "build_loop"
    /\ Len(nodes) # build_l1
    /\ LET x == next_node(f0, build_l0, f1, Len(nodes), cmp_at(nodes, f0, f1))
           y == next_node(x.f0, build_l0, x.f1, Len(nodes),
                          cmp_at(nodes, x.f0, x.f1))
       IN  /\ f0' = y.f0
           /\ f1' = y.f1
           /\ IF x.x < Len(nodes) /\ y.x < Len(nodes)
              THEN /\ nodes' = Append(nodes, op(At(nodes, x.x), At(nodes, y.x)))
                   /\ merged' = Append(merged, [x |-> x.x, y |-> y.x])
                   /\ pc' = pc
                   /\ ub' = ub
              ELSE /\ ub' = "build_deref"
                   /\ pc' = "crashed"
                   /\ UNCHANGED <<nodes, merged>>
    /\ UNCHANGED <<input, frequencies, lnodes, result, hlen, st, gc, emitted,
                   bits, dnodes, rh, prefixes, current, bits_read, output>>

-----------------------------------------------------------------------------
(* huffman_encoder::header *)

\* l0 of header without its + 1
header_l0_short == Len(nodes) \div 2

\* l0 of header: nodes.begin() + nodes.size() / 2 + 1, the end of the leaves
header_l0 == Len(nodes) \div 2 + 1

\* what header appends for the node at x
header_entry(x) ==
    IF x < header_l0 THEN <<1>> \o converter_encode(At(nodes, x)) ELSE <<0>>

\* lines 252-257, once build_huffman_array has returned
HeaderStart ==
    /\ pc = "build_loop"
    /\ Len(nodes) = build_l1
    /\ result' = to_string(SizeBits, Len(nodes))
    /\ f0' = 0
    /\ f1' = header_l0
    /\ pc' = "header"
    /\ UNCHANGED <<input, frequencies, nodes, lnodes, merged, hlen, st, gc,
                   emitted, bits, dnodes, rh, prefixes, current, bits_read,
                   output, ub>>

\* lines 259-268: one iteration of the loop
HeaderStep ==
    /\ pc = "header"
    /\ f0 # header_l0 \/ f1 # Len(nodes)
    /\ LET x == next_node(f0, header_l0, f1, Len(nodes), cmp_at(nodes, f0, f1))
       IN  /\ f0' = x.f0
           /\ f1' = x.f1
           /\ result' = result \o header_entry(x.x)
    /\ UNCHANGED <<pc, input, frequencies, nodes, lnodes, merged, hlen, st, gc,
                   emitted, bits, dnodes, rh, prefixes, current, bits_read,
                   output, ub>>

-----------------------------------------------------------------------------
(* generate_codes *)

\* the elements of s as reverse iterators see them: reverse position r
\* denotes s[Len(s) - r]
reversed(s) == [r \in 1..Len(s) |-> s[Len(s) + 1 - r]]

\* cmp(*f1, *f0) of generate_codes, with the decoder's or the encoder's cmp
codes_cmp_at(v, a0, a1, dec) ==
    /\ a0 < Len(v)
    /\ a1 < Len(v)
    /\ IF dec THEN decoder_cmp(At(v, a1), At(v, a0))
       ELSE encoder_cmp(At(v, a1), At(v, a0))

\* both children given the bit of the first
child_code_same(code, which) == Append(code, 1)

\* the code of the first and of the second child of an internal node
child_code(code, which) == Append(code, IF which = 1 THEN 1 ELSE 0)

\* generate_codes_start with n counted from f0: n = l0 - f0
generate_codes_start_short(a0, l0, a1, l1) ==
    [f0 |-> a0, l0 |-> l0, f1 |-> a1 + 1, l1 |-> l1, n |-> l0 - a0,
     prefixes |-> <<[first |-> a1, second |-> <<>>]>>, current |-> 0,
     exhausted |-> FALSE]

\* lines 168-175: the root is queued with the empty code
generate_codes_start(a0, l0, a1, l1) ==
    [f0 |-> a0, l0 |-> l0, f1 |-> a1 + 1, l1 |-> l1, n |-> l0 - a1,
     prefixes |-> <<[first |-> a1, second |-> <<>>]>>, current |-> 0,
     exhausted |-> FALSE]

\* whether the entry under the cursor can be read
gc_readable(g) == g.current < Len(g.prefixes)

\* line 180: is the entry under the cursor a leaf
gc_is_leaf(g) == At(g.prefixes, g.current).first >= g.l1

\* lines 178-189: one iteration of the loop over the nodes v (as the
\* reverse iterators see them); a leaf is handed to f by the caller
generate_codes_step(g, v, dec) ==
    IF gc_is_leaf(g)
    THEN [g EXCEPT !.n = g.n - 1, !.current = g.current + 1]
    ELSE LET cur == At(g.prefixes, g.current)
             x == next_node(g.f0, g.l0, g.f1, g.l1,
                            codes_cmp_at(v, g.f0, g.f1, dec))
             y == next_node(x.f0, g.l0, x.f1, g.l1,
                            codes_cmp_at(v, x.f0, x.f1, dec))
         IN  [g EXCEPT !.n = g.n - 1,
                       !.f0 = y.f0,
                       !.f1 = y.f1,
                       !.prefixes = g.prefixes \o
                           <<[first |-> x.x, second |-> child_code(cur.second, 1)],
                             [first |-> y.x, second |-> child_code(cur.second, 2)]>>,
                       !.current = g.current + 1,
                       !.exhausted = g.exhausted \/ x.bad \/ y.bad]

-----------------------------------------------------------------------------
(* huffman_encoder::operator() *)

\* st_op: st.insert(make_pair(f(*x.first), x.second)), f = get_second; an
\* insert of a key already present changes nothing
st_op(table, x) ==
    LET key == At(reversed(nodes), x.first).second
    IN  IF key \in DOMAIN table THEN table
        ELSE [k \in DOMAIN table \cup {key} |->
                 IF k = key THEN x.second ELSE table[k]]

\* st[c]: a missing key is inserted with the empty string
st_at(table, c) == IF c \in DOMAIN table THEN table[c] ELSE <<>>

\* line 219, once header has returned
EncGenStart ==
    /\ pc = "header"
    /\ ~(f0 # header_l0 \/ f1 # Len(nodes))
    /\ hlen' = Len(result)
    /\ gc' = generate_codes_start(Len(nodes) - lnodes, Len(nodes), 0,
                                  Len(nodes) - lnodes)
    /\ emitted' = <<>>
    /\ pc' = "enc_codes"
    /\ UNCHANGED <<input, frequencies, nodes, lnodes, f0, f1, merged, result,
                   st, bits, dnodes, rh, prefixes, current, bits_read, output,
                   ub>>

\* one iteration of generate_codes for the encoder
EncGenStep ==
    /\ pc = "enc_codes"
    /\ gc.n # 0
    /\ IF ~gc_readable(gc)
       THEN /\ ub' = "prefixes_cursor"
            /\ pc' = "crashed"
            /\ UNCHANGED <<gc, st, emitted>>
       ELSE /\ gc' = generate_codes_step(gc, reversed(nodes), FALSE)
            /\ IF gc_is_leaf(gc)
               THEN IF At(gc.prefixes, gc.current).first < Len(nodes)
                    THEN /\ st' = st_op(st, At(gc.prefixes, gc.current))
                         /\ emitted' = Append(emitted, At(gc.prefixes, gc.current))
                         /\ UNCHANGED <<pc, ub>>
                    ELSE /\ ub' = "rend_deref"
                         /\ pc' = "crashed"
                         /\ UNCHANGED <<st, emitted>>
               ELSE UNCHANGED <<st, emitted, pc, ub>>
    /\ UNCHANGED <<input, frequencies, nodes, lnodes, f0, f1, merged, result,
                   hlen, bits, dnodes, rh, prefixes, current, bits_read, output>>

\* lines 222-227: the payload, the code of every symbol of the message
Encode ==
    /\ pc = "enc_codes"
    /\ gc.n = 0
    /\ result' = result \o Concat([i \in 1..Len(input) |-> st_at(st, input[i])])
    /\ pc' = "compressed"
    /\ UNCHANGED <<input, frequencies, nodes, lnodes, f0, f1, merged, hlen, st,
                   gc, emitted, bits, dnodes, rh, prefixes, current, bits_read,
                   output, ub>>

-----------------------------------------------------------------------------
(* huffman_decoder::read_header *)

\* the value of the T x that read_header leaves uninitialized for an internal
\* node: a value no char has, standing for whatever the read yields; the
\* decoder never inspects the symbol of an internal node
indeterminate == Pow2(CharBits)

\* lines 323-327: the node count, the value-initialized nodes, the cursors
read_header_start(b) ==
    LET size == stoi(substr(b, 0, SizeBits))
    IN  [size |-> size, i |-> 0, lnodes |-> 0, inodes |-> size \div 2 + 1,
         first |-> SizeBits]

\* std::vector<std::pair<int, T>>(size)
value_initialized(size) == [j \in 1..size |-> [first |-> 0, second |-> 0]]

\* s with the element at position p replaced
assign(s, p, e) == [s EXCEPT ![p + 1] = e]

\* read_leaf without the ++first that steps over the shape bit
read_leaf_no_shape_bit(r) ==
    [r EXCEPT !.i = r.i + 1, !.lnodes = r.lnodes + 1,
              !.first = r.first + CharBits]

\* lines 333-336: a leaf entry, its 8 symbol bits parsed
read_leaf(r) ==
    [r EXCEPT !.i = r.i + 1, !.lnodes = r.lnodes + 1,
              !.first = r.first + 1 + CharBits]

\* line 338: an internal entry
read_internal(r) ==
    [r EXCEPT !.i = r.i + 1, !.inodes = r.inodes + 1, !.first = r.first + 1]

\* decompress(input): the decoder is constructed and read_header starts
Decompress(b) ==
    /\ bits' = b
    /\ rh' = read_header_start(b)
    /\ dnodes' = value_initialized(stoi(substr(b, 0, SizeBits)))
    /\ prefixes' = <<>>
    /\ output' = <<>>
    /\ pc' = "read_header"
    /\ UNCHANGED <<input, frequencies, nodes, lnodes, f0, f1, merged, result,
                   hlen, st, gc, emitted, current, bits_read, ub>>

\* main: decompress(compressed)
DecompressValid ==
    /\ pc = "compressed"
    /\ Decompress(result)

\* decompress of a bitstream whose payload lost its last d bits
DecompressCutPayload ==
    /\ pc = "compressed"
    /\ Len(input) <= MaxCutLen
    /\ \E d \in 1..MaxDrop :
          /\ Len(result) - d >= hlen
          /\ Decompress(SubSeq(result, 1, Len(result) - d))

\* decompress of a bitstream that ends d bits before the end of its header
DecompressCutHeader ==
    /\ pc = "compressed"
    /\ Len(input) <= MaxCutLen
    /\ \E d \in 1..MaxDrop : Decompress(SubSeq(result, 1, hlen - d))

\* lines 329-340, one iteration, the shape bit being isleaf
ReadHeaderEntry(isleaf) ==
    IF isleaf
    THEN IF rh.first + 1 > Len(bits)
         THEN \* input.substr(pos, n) with pos > size() throws
              /\ pc' = "out_of_range"
              /\ UNCHANGED <<rh, dnodes>>
         ELSE IF substr(bits, rh.first + 1, CharBits) = <<>>
         THEN \* std::stoi of the empty string throws
              /\ pc' = "invalid_argument"
              /\ UNCHANGED <<rh, dnodes>>
         ELSE /\ dnodes' = assign(dnodes, rh.lnodes,
                      [first |-> rh.i,
                       second |-> converter_decode(
                                      substr(bits, rh.first + 1, CharBits))])
              /\ rh' = read_leaf(rh)
              /\ pc' = pc
    ELSE /\ rh' = read_internal(rh)
         /\ IF rh.inodes < Len(dnodes)
            THEN /\ dnodes' = assign(dnodes, rh.inodes,
                        [first |-> rh.i, second |-> indeterminate])
                 /\ pc' = pc
            ELSE \* nodes[inodes] is written past the end of the vector
                 /\ dnodes' = dnodes
                 /\ pc' \in {pc, "crashed"}

\* lines 329-340: one iteration of the loop
ReadHeaderStep ==
    /\ pc = "read_header"
    /\ rh.i < Len(dnodes)
    /\ IF rh.first < Len(bits)
       THEN /\ ReadHeaderEntry(At(bits, rh.first) = 1)
            /\ ub' = IF ub = "none" /\ At(bits, rh.first) # 1
                        /\ rh.inodes >= Len(dnodes)
                     THEN "header_write" ELSE ub
       ELSE \* *first is read at or past input.end()
            /\ ub' = IF ub = "none" THEN "header_read" ELSE ub
            /\ \/ \E isleaf \in BOOLEAN : ReadHeaderEntry(isleaf)
               \/ /\ pc' = "crashed"
                  /\ UNCHANGED <<rh, dnodes>>
    /\ UNCHANGED <<input, frequencies, nodes, lnodes, f0, f1, merged, result,
                   hlen, st, gc, emitted, bits, prefixes, current, bits_read,
                   output>>

-----------------------------------------------------------------------------
(* huffman_decoder::operator() *)

\* lnodes of the decoder: nodes.size() / 2 + 1
decoder_lnodes == Len(dnodes) \div 2 + 1

\* the comparison of line 292: x.second.size() < y.second.size()
shorter(x, y) == Len(x.second) < Len(y.second)

\* what the std::sort of line 292 may leave of s
sorted_by_size(s) ==
    {t \in {[i \in 1..Len(s) |-> s[p[i]]] : p \in Permutations(1..Len(s))} :
        \A i \in 1..(Len(t) - 1) : ~shorter(t[i + 1], t[i])}

\* prefix_op that puts x in front
prefix_op_front(ps, x) == <<x>> \o ps

\* prefix_op: prefixes.push_back(x)
prefix_op(ps, x) == Append(ps, x)

\* lines 283-297 up to the first iteration of generate_codes: read_header
\* has returned; prefixes, still empty, is sorted; generate_codes starts
DecGenStart ==
    /\ pc = "read_header"
    /\ ~(rh.i < Len(dnodes))
    /\ current' = rh.first
    /\ \E t \in sorted_by_size(prefixes) : prefixes' = t
    /\ gc' = generate_codes_start(Len(dnodes) - decoder_lnodes, Len(dnodes), 0,
                                  Len(dnodes) - decoder_lnodes)
    /\ emitted' = <<>>
    /\ pc' = "dec_codes"
    /\ UNCHANGED <<input, frequencies, nodes, lnodes, f0, f1, merged, result,
                   hlen, st, bits, dnodes, rh, bits_read, output, ub>>

\* one iteration of generate_codes for the decoder
DecGenStep ==
    /\ pc = "dec_codes"
    /\ gc.n # 0
    /\ IF ~gc_readable(gc)
       THEN /\ ub' = "prefixes_cursor"
            /\ pc' = "crashed"
            /\ UNCHANGED <<gc, prefixes, emitted>>
       ELSE /\ gc' = generate_codes_step(gc, reversed(dnodes), TRUE)
            /\ IF gc_is_leaf(gc)
               THEN /\ prefixes' = prefix_op(prefixes, At(gc.prefixes, gc.current))
                    /\ emitted' = Append(emitted, At(gc.prefixes, gc.current))
               ELSE UNCHANGED <<prefixes, emitted>>
            /\ UNCHANGED <<pc, ub>>
    /\ UNCHANGED <<input, frequencies, nodes, lnodes, f0, f1, merged, result,
                   hlen, st, bits, dnodes, rh, current, bits_read, output>>

\* line 299, once generate_codes has returned
DecodeStart ==
    /\ pc = "dec_codes"
    /\ gc.n = 0
    /\ bits_read' = <<>>
    /\ pc' = "decode"
    /\ UNCHANGED <<input, frequencies, nodes, lnodes, f0, f1, merged, result,
                   hlen, st, gc, emitted, bits, dnodes, rh, prefixes, current,
                   output, ub>>

\* what a char read at or past input.end() may be: '0', '1', or neither
Garbage == {0, 1, 2}

\* the longest code of ps
RECURSIVE longest(_)
longest(ps) ==
    IF ps = <<>> THEN 0
    ELSE LET m == longest(Tail(ps))
         IN  IF Len(Head(ps).second) > m THEN Len(Head(ps).second) ELSE m

\* lines 304-307: bits are read from mem, from position c on, until br has
\* size bits
RECURSIVE read_bits(_, _, _, _)
read_bits(br, c, size, mem) ==
    IF size > Len(br) THEN read_bits(Append(br, At(mem, c)), c + 1, size, mem)
    ELSE [bits_read |-> br, current |-> c]

\* lines 302-315: the scan of the candidates, from candidate j on
RECURSIVE scan(_, _, _, _, _)
scan(ps, j, br, c, mem) ==
    IF j > Len(ps)
    THEN [matched |-> FALSE, first |-> 0, bits_read |-> br, current |-> c]
    ELSE LET r == read_bits(br, c, Len(ps[j].second), mem)
         IN  IF r.bits_read = ps[j].second
             THEN [matched |-> TRUE, first |-> ps[j].first,
                   bits_read |-> <<>>, current |-> r.current]
             ELSE scan(ps, j + 1, r.bits_read, r.current, mem)

\* the memory the scan reads: the bitstream, then g
memory(g) ==
    IF current <= Len(bits) THEN bits \o g
    ELSE bits \o [j \in 1..(current - Len(bits)) |-> 2] \o g

\* the state after one iteration of the outer loop, which read mem
Decoded(mem) ==
    LET r == scan(prefixes, 1, bits_read, current, mem)
    IN  /\ bits_read' = r.bits_read
        /\ current' = r.current
        /\ output' = IF r.matched
                     THEN Append(output, At(reversed(dnodes), r.first).second)
                     ELSE output

\* lines 300-316: one iteration of the outer loop
DecodeStep ==
    /\ pc = "decode"
    /\ current # Len(bits)
    /\ current <= Len(bits) + MaxOver
    /\ LET pad == [j \in 1..longest(prefixes) |-> 2]
           r == scan(prefixes, 1, bits_read, current, memory(pad))
       IN  IF r.current <= Len(bits)
           THEN /\ Decoded(memory(pad))
                /\ UNCHANGED <<pc, ub>>
           ELSE \* *current is read at or past input.end()
                /\ ub' = IF ub = "none" THEN "payload_read" ELSE ub
                /\ \/ /\ \E g \in [1..longest(prefixes) -> Garbage] :
                            Decoded(memory(g))
                      /\ pc' = pc
                   \/ /\ pc' = "crashed"
                      /\ UNCHANGED <<bits_read, current, output>>
    /\ UNCHANGED <<input, frequencies, nodes, lnodes, f0, f1, merged, result,
                   hlen, st, gc, emitted, bits, dnodes, rh, prefixes>>

\* line 317: current == input.end()
DecodeReturn ==
    /\ pc = "decode"
    /\ current = Len(bits)
    /\ pc' = "done"
    /\ UNCHANGED <<input, frequencies, nodes, lnodes, f0, f1, merged, result,
                   hlen, st, gc, emitted, bits, dnodes, rh, prefixes, current,
                   bits_read, output, ub>>

-----------------------------------------------------------------------------

Next ==
    \/ Frequencies
    \/ BuildEmpty
    \/ BuildTooFew
    \/ BuildStart
    \/ BuildStep
    \/ HeaderStart
    \/ HeaderStep
    \/ EncGenStart
    \/ EncGenStep
    \/ Encode
    \/ DecompressValid
    \/ DecompressCutPayload
    \/ DecompressCutHeader
    \/ ReadHeaderStep
    \/ DecGenStart
    \/ DecGenStep
    \/ DecodeStart
    \/ DecodeStep
    \/ DecodeReturn

Spec == Init /\ [][Next]_vars

-----------------------------------------------------------------------------
(* Vocabulary of the properties *)

\* the number of distinct symbols of the message, once the table is built
k == Len(frequencies)

\* a is a prefix of b
IsPrefix(a, b) == Len(a) <= Len(b) /\ SubSeq(b, 1, Len(a)) = a

\* the symbols of the message
SymbolsOf(s) == {s[i] : i \in 1..Len(s)}

\* decompress is running, or has returned normally
DecoderPcs == {"read_header", "dec_codes", "decode", "done"}

\* decompress was given exactly what compress returned
ValidStream == bits # <<>> /\ bits = result

\* decompress was given a bitstream whose header is whole
WholeHeader == hlen > 0 /\ Len(bits) >= hlen

\* decompress was given a bitstream that ends inside its header
CutHeader == bits # <<>> /\ Len(bits) < hlen

\* the sum of the elements of a sequence of numbers
RECURSIVE Sum(_)
Sum(s) == IF s = <<>> THEN 0 ELSE Head(s) + Sum(Tail(s))

-----------------------------------------------------------------------------
(* C1 *)

\* the iteration of the decode loop that is about to run matches a code
\* and moves the cursor forward without passing the end of the input
DecodeProgress ==
    LET r == scan(prefixes, 1, bits_read, current,
                  memory([j \in 1..longest(prefixes) |-> 2]))
    IN  r.matched /\ r.current > current /\ r.current <= Len(bits)

\* C1: round trip.  For a message with at least 2 distinct symbols, and
\* whatever order the weight sort left equal weights in, decompress of what
\* compress returned executes no undefined behaviour and throws nothing, every
\* iteration of its decode loop decodes one symbol and moves forward inside
\* the input (so the loop ends), what it has written is always a prefix of
\* the message, and when it returns it has written exactly the message.
C1_RoundTrip ==
    (ValidStream /\ k >= 2) =>
        /\ ub = "none"
        /\ pc \in DecoderPcs
        /\ IsPrefix(output, input)
        /\ (pc = "decode" /\ current # Len(bits)) => DecodeProgress
        /\ (pc = "decode" /\ current = Len(bits)) => output = input
        /\ pc = "done" => output = input

\* a round trip of a message of 3 or more distinct symbols, two of equal
\* weight that the sort left in descending order of symbol
C1_Witness ==
    /\ ValidStream
    /\ pc = "done"
    /\ output = input
    /\ k >= 3
    /\ \E i \in 1..(k - 1) :
          /\ frequencies[i].first = frequencies[i + 1].first
          /\ frequencies[i].second > frequencies[i + 1].second

-----------------------------------------------------------------------------
(* C2 *)

\* no code of the pairs es is a prefix of the code of another pair
PrefixFree(es) ==
    \A i, j \in 1..Len(es) :
        i # j => ~IsPrefix(es[i].second, es[j].second)

\* C2: prefix-free codes.  For k >= 2 leaves, in the encoder and in the
\* decoder, no code that generate_codes has emitted is a prefix of another emitted code (so the codes are distinct
\* and none is empty); when the call has returned, every leaf has exactly one
\* code; and the encoder's table gives every symbol of the message the code
\* of its leaf.
C2_PrefixFree ==
    (k >= 2 /\ pc \in {"enc_codes", "compressed", "dec_codes"}) =>
        /\ PrefixFree(emitted)
        /\ \A i \in 1..Len(emitted) : emitted[i].second # <<>>
        /\ (pc \in {"enc_codes", "dec_codes"} /\ gc.n = 0) =>
              /\ {emitted[i].first : i \in 1..Len(emitted)} = gc.l1..(gc.l0 - 1)
              /\ Len(emitted) = gc.l0 - gc.l1
        /\ (pc = "compressed") =>
              /\ DOMAIN st = SymbolsOf(input)
              /\ \A i \in 1..Len(emitted) :
                    st[At(reversed(nodes), emitted[i].first).second]
                        = emitted[i].second

\* the encoder has generated the codes of 3 or more leaves, of two lengths
C2_Witness ==
    /\ pc = "compressed"
    /\ k >= 3
    /\ Len(emitted) = k
    /\ \E i, j \in 1..Len(emitted) :
          Len(emitted[i].second) < Len(emitted[j].second)

-----------------------------------------------------------------------------
(* C3 *)

\* C3: insufficient alphabet.  compress of a message with exactly one
\* distinct symbol fails with InsufficientAlphabet: the tree builder is not
\* run, nodes[1] is not indexed, the call neither crashes nor runs on.
C3_InsufficientAlphabet ==
    (Cardinality(SymbolsOf(input)) = 1 /\ pc \notin {"compress", "build"}) =>
        /\ pc = "InsufficientAlphabet"
        /\ ub = "none"

-----------------------------------------------------------------------------
(* C4 *)

\* C4: malformed header.  decompress of a bitstream that ends inside its
\* header fails with MalformedHeader: read_header reads no position at or
\* past the end of the bitstream and does not return normally.
C4_MalformedHeader ==
    CutHeader =>
        /\ ub = "none"
        /\ pc \in {"read_header", "MalformedHeader"}

-----------------------------------------------------------------------------
(* C5 *)

\* C5: malformed payload.  decompress of a bitstream with a whole header
\* never reads at or past the end of the input in its decode loop; a payload
\* that ends inside a code ends the call with MalformedPayload.
C5_MalformedPayload ==
    WholeHeader =>
        /\ ub = "none"
        /\ pc \in DecoderPcs \cup {"MalformedPayload"}

-----------------------------------------------------------------------------
(* C6 *)

\* the header h read entry by entry from position p: the leaf entries and
\* the internal entries counted, and whether the last entry ends with h
RECURSIVE header_walk(_, _, _, _)
header_walk(h, p, nl, ni) ==
    IF p >= Len(h) THEN [leaves |-> nl, internals |-> ni, whole |-> p = Len(h)]
    ELSE IF At(h, p) = 1 THEN header_walk(h, p + 1 + CharBits, nl + 1, ni)
    ELSE header_walk(h, p + 1, nl, ni + 1)

\* C6: header size law.  For k >= 2 distinct symbols the header is
\* 16 + k_total + 8k bits long with k_total = 2k - 1: the 16-bit node count
\* k_total, then exactly k leaf entries (bit 1 and 8 symbol bits) and k - 1
\* internal entries (bit 0); the payload, the codes of the message's symbols,
\* starts right after it.
C6_HeaderSize ==
    (pc \in {"enc_codes", "compressed"}) =>
        LET h == SubSeq(result, 1, hlen)
            w == header_walk(h, SizeBits, 0, 0)
        IN  /\ k >= 2
            /\ hlen = SizeBits + (2 * k - 1) + CharBits * k
            /\ stoi(SubSeq(h, 1, SizeBits)) = 2 * k - 1
            /\ w.whole
            /\ w.leaves = k
            /\ w.internals = k - 1
            /\ hlen > 0
            /\ (pc = "enc_codes") => Len(result) = hlen
            /\ (pc = "compressed") =>
                  /\ Len(result) = hlen +
                        Sum([i \in 1..Len(input) |-> Len(st[input[i]])])
                  /\ IsPrefix(st[input[1]], SubSeq(result, hlen + 1, Len(result)))

\* compress has returned the bitstream of a message of 4 distinct symbols
C6_Witness ==
    /\ pc = "compressed"
    /\ k = 4
    /\ hlen = 55
    /\ Len(result) > hlen

-----------------------------------------------------------------------------
(* C7 *)

\* the positions consumed by the first j merges
Consumed(j) == UNION {{merged[i].x, merged[i].y} : i \in 1..j}

\* the weight of the node at position p
Weight(p) == At(nodes, p).first

\* C7: MergeArray invariant.  For k >= 2 weight-sorted leaves,
\* build_huffman_array leaves positions [0, k) as they were and appends
\* internal nodes, k - 1 when it returns (length 2k - 1); the j-th appended
\* node's weight is the sum of two distinct earlier nodes not consumed
\* before, and no other node unconsumed at that time is lighter than either
\* of them; no node is consumed twice and when the call returns every node
\* but the last is consumed; the internal weights never decrease.
C7_MergeArray ==
    (k >= 2 /\ pc \in {"build", "build_loop", "header"}) =>
        /\ SubSeq(nodes, 1, k) = frequencies
        /\ is_sorted(frequencies)
        /\ Len(nodes) = k + Len(merged)
        /\ Len(merged) <= k - 1
        /\ (pc = "header") => Len(nodes) = 2 * k - 1
        /\ \A j \in 1..Len(merged) :
              LET m == merged[j]
                  new == k + j - 1
                  free == (0..(new - 1)) \ Consumed(j - 1)
              IN  /\ m.x # m.y
                  /\ m.x \in free
                  /\ m.y \in free
                  /\ Weight(new) = Weight(m.x) + Weight(m.y)
                  /\ At(nodes, new).second = 0
                  /\ \A u \in free \ {m.x, m.y} :
                        Weight(u) >= Weight(m.x) /\ Weight(u) >= Weight(m.y)
        /\ Cardinality(Consumed(Len(merged))) = 2 * Len(merged)
        /\ (Len(merged) = k - 1) => Consumed(k - 1) = 0..(2 * k - 3)
        /\ \A j \in (k + 1)..(Len(nodes) - 1) :
              nodes[j].first <= nodes[j + 1].first

\* the build has finished on 3 or more leaves, and one of its merges took
\* first an internal node that was strictly lighter than a leaf not yet
\* consumed at that time
C7_Witness ==
    /\ pc = "header"
    /\ k >= 3
    /\ Len(nodes) = 2 * k - 1
    /\ \E j \in 1..Len(merged) :
          /\ merged[j].x >= k
          /\ \E u \in 0..(k - 1) :
                /\ u \notin Consumed(j - 1)
                /\ Weight(merged[j].x) < Weight(u)

-----------------------------------------------------------------------------
(* C8 *)

\* C8: encoder/decoder code agreement.  From a whole header the decoder
\* rebuilds an array of the encoder's length with the k leaves first, in the
\* encoder's order and with the encoder's symbols, then the k - 1 internal
\* placeholders; the indices grow inside each group, and a leaf's index is
\* below an internal's exactly when the leaf is not heavier (ties: the leaf
\* first).  The codes generate_codes then gives with the index comparison
\* are, symbol for symbol, the codes of the encoder's table.
C8_CodeAgreement ==
    (WholeHeader /\ pc \in {"dec_codes", "decode", "done"}) =>
        /\ Len(dnodes) = Len(nodes)
        /\ decoder_lnodes = k
        /\ \A j \in 1..k : dnodes[j].second = nodes[j].second
        /\ \A j \in (k + 1)..Len(dnodes) : dnodes[j].second = indeterminate
        /\ \A a, b \in 1..k : a < b => dnodes[a].first < dnodes[b].first
        /\ \A a, b \in (k + 1)..Len(dnodes) :
              a < b => dnodes[a].first < dnodes[b].first
        /\ \A a \in 1..k : \A b \in (k + 1)..Len(dnodes) :
              (dnodes[a].first < dnodes[b].first)
                  <=> ~(nodes[b].first < nodes[a].first)
        /\ (pc \in {"decode", "done"}) =>
              /\ Len(prefixes) = k
              /\ {At(reversed(dnodes), prefixes[i].first).second :
                      i \in 1..Len(prefixes)} = DOMAIN st
              /\ \A i \in 1..Len(prefixes) :
                    st[At(reversed(dnodes), prefixes[i].first).second]
                        = prefixes[i].second

\* the decoder has generated its codes for 3 or more leaves, one of which
\* weighs exactly what an internal node weighs
C8_Witness ==
    /\ WholeHeader
    /\ pc = "decode"
    /\ k >= 3
    /\ Len(prefixes) = k
    /\ \E a \in 1..k : \E b \in (k + 1)..Len(nodes) :
          nodes[a].first = nodes[b].first

-----------------------------------------------------------------------------
(* C9 *)

\* e put into s before the first element with a longer code
RECURSIVE InsertBySize(_, _)
InsertBySize(e, s) ==
    IF s = <<>> THEN <<e>>
    ELSE IF Len(Head(s).second) > Len(e.second) THEN <<e>> \o s
    ELSE <<Head(s)>> \o InsertBySize(e, Tail(s))

\* s in ascending order of code length, equal lengths in the order of s
RECURSIVE StableBySize(_)
StableBySize(s) ==
    IF s = <<>> THEN <<>>
    ELSE InsertBySize(s[Len(s)], StableBySize(SubSeq(s, 1, Len(s) - 1)))

\* C9: decoder candidate order.  In the decode loop the candidates are in
\* ascending order of code length, and candidates of equal length are in the
\* order generate_codes emitted them.
C9_CandidateOrder ==
    (pc = "decode") =>
        /\ \A i \in 1..(Len(prefixes) - 1) :
              Len(prefixes[i].second) <= Len(prefixes[i + 1].second)
        /\ prefixes = StableBySize(emitted)

\* the decode loop runs with candidates of two lengths, two of them of the
\* same length
C9_Witness ==
    /\ pc = "decode"
    /\ output # <<>>
    /\ \E i, j \in 1..Len(prefixes) :
          Len(prefixes[i].second) < Len(prefixes[j].second)
    /\ \E i, j \in 1..Len(prefixes) :
          i # j /\ Len(prefixes[i].second) = Len(prefixes[j].second)

-----------------------------------------------------------------------------
(* C10 *)

\* the entries of the queue that generate_codes has processed and that are
\* internal nodes
Expanded ==
    {i \in 1..gc.current :
        i <= Len(gc.prefixes) /\ gc.prefixes[i].first < gc.l1}

\* C10: generate_codes counts.  On an array with k >= 2 leaves the call
\* processes 2k - 1 queue entries in all; the queue never holds more than
\* 2k - 1 entries and holds the root, then two entries per expanded node; the
\* cursor is on a queued entry whenever an iteration is to run; no next_node
\* call finds both ranges exhausted; every leaf processed was emitted once;
\* and when the loop ends k - 1 internal nodes were expanded and k leaves
\* emitted.
C10_GenerateCodes ==
    (pc \in {"enc_codes", "dec_codes"}) =>
        LET leaves == gc.l0 - gc.l1
        IN  /\ leaves >= 2
            /\ pc = "enc_codes" => leaves = k
            /\ gc.l0 = 2 * leaves - 1
            /\ gc.current + gc.n = 2 * leaves - 1
            /\ Len(gc.prefixes) <= 2 * leaves - 1
            /\ Len(gc.prefixes) = 1 + 2 * Cardinality(Expanded)
            /\ gc.n > 0 => gc.current < Len(gc.prefixes)
            /\ ~gc.exhausted
            /\ gc.f0 <= gc.l0
            /\ gc.f1 <= gc.l1
            /\ Len(emitted) = gc.current - Cardinality(Expanded)
            /\ Cardinality({emitted[i].first : i \in 1..Len(emitted)})
                  = Len(emitted)
            /\ (gc.n = 0) =>
                  /\ gc.current = 2 * leaves - 1
                  /\ Cardinality(Expanded) = leaves - 1
                  /\ Len(emitted) = leaves

\* generate_codes has processed its last entry on an array of 4 leaves
C10_Witness ==
    /\ pc = "enc_codes"
    /\ k = 4
    /\ gc.n = 0
    /\ gc.current = 7
    /\ Len(emitted) = 4

====
